---- MODULE Spec2Model ----
(***************************************************************************)
(* StressFlight Analytics: the upload / analysis session of App.tsx and    *)
(* the travel-window and high-stress filter of handleGenerateAnalysis.     *)
(*                                                                         *)
(* Spec        the session state machine (App.tsx): uploads, the effect    *)
(*             that starts the insight call, settlement of pending calls,  *)
(*             resetApp.  The effect of lines 94-98 runs with the commit   *)
(*             of every state update, so it is part of every action.       *)
(* SpecFilter  the pure computation of handleGenerateAnalysis lines 65-83  *)
(*             applied to inputs drawn from bounded sets.                  *)
(***************************************************************************)
EXTENDS Integers, Sequences, FiniteSets, TLC

\* ------------------------------------------------------------------ bounds
MaxCalls == 2
MaxResets == 1
MaxFilterSamples == 2
MaxFilterEvents == 2
MaxPhaseEvents == 3
MaxZipFiles == 3

\* ------------------------------------------------------------- time model
MsPerHour == 60 * 60 * 1000
MsPerDay == 24 * MsPerHour

\* The evaluating environment's offset of local time from UTC, in ms.
TzOffsets == {0 - 5 * MsPerHour, 2 * MsPerHour}

\* types.ts
STRESS_THRESHOLD == 80

AWAITING_WATCH_DATA == "AWAITING_WATCH_DATA"
AWAITING_FLIGHT_DATA == "AWAITING_FLIGHT_DATA"
DISPLAYING_RESULTS == "DISPLAYING_RESULTS"

\* error === null is the string "null"; flightData === null is the empty
\* option <<>>, a loaded FlightData fd is <<fd>>.
NoError == "null"
NoFlight == <<>>

SeqsUpTo(S, n) == UNION {[1..k -> S] : k \in 0..n}

VARIABLES
    appState, healthData, flightData, analysis,
    isLoading, isAnalysisLoading, loadingMessage, error,
    uploads,          \* pending upload promises
    calls,            \* pending analyzeStressPatterns promises
    nCalls,           \* insight calls started so far
    session,          \* number of resetApp so far
    startsSinceLoad,  \* insight calls started since the last user action / load
    analysisSrc,      \* inputs of the call that wrote the current analysis
    last,             \* the last step taken
    tz,               \* local timezone offset of the environment
    fpc, fHealth, fEvents, window, payload,   \* SpecFilter
    vEvents, vHealth,  \* DataVisualization props: flightEvents, healthData
    timeRange,         \* DataVisualization state
    filteredHealthData, chartData,   \* DataVisualization memos of the last render
    vlast,             \* the last step of DataVisualization
    ppc, areasRaw, shownAreas,   \* SpecPhase: referenceAreas before / after its filter
    zpc, zArchive, zResult       \* SpecZip: parseSamsungHealthZip

sessVars == <<appState, healthData, flightData, analysis, isLoading,
              isAnalysisLoading, loadingMessage, error, uploads, calls, nCalls,
              session, startsSinceLoad, analysisSrc, last>>
filterVars == <<fpc, fHealth, fEvents, window, payload>>
vizVars == <<vEvents, vHealth, timeRange, filteredHealthData, chartData, vlast,
             ppc, areasRaw, shownAreas>>
zipVars == <<zpc, zArchive, zResult>>
vars == <<sessVars, filterVars, vizVars, zipVars, tz>>

\* ------------------------------------------------- Date / Math primitives
\* new Date(t).setHours(0, 0, 0, 0).getTime() in a zone at offset z
setHoursStartOfDay(t, z) == ((t + z) \div MsPerDay) * MsPerDay - z

\* new Date(t).setHours(23, 59, 59, 999).getTime()
setHoursEndOfDay(t, z) ==
    ((t + z) \div MsPerDay) * MsPerDay + 23 * MsPerHour + 59 * 60 * 1000 + 59 * 1000 + 999 - z

RECURSIVE MathMin(_)
MathMin(ts) ==
    IF Len(ts) = 1 THEN ts[1]
    ELSE LET m == MathMin(Tail(ts)) IN IF ts[1] < m THEN ts[1] ELSE m

RECURSIVE MathMax(_)
MathMax(ts) ==
    IF Len(ts) = 1 THEN ts[1]
    ELSE LET m == MathMax(Tail(ts)) IN IF ts[1] > m THEN ts[1] ELSE m

RECURSIVE Filter(_, _)
Filter(s, keep) ==
    IF s = <<>> THEN <<>>
    ELSE IF keep[s[1]] THEN <<s[1]>> \o Filter(Tail(s), keep) ELSE Filter(Tail(s), keep)

\* ------------------------------------- handleGenerateAnalysis, lines 65-83
eventTimestamps(events) == [i \in 1..Len(events) |-> events[i].timestamp]

travelStart_FirstEvent(events) == eventTimestamps(events)[1]
travelStart(events) == MathMin(eventTimestamps(events))

travelEnd(events) == MathMax(eventTimestamps(events))

travelDayStart(events, z) == setHoursStartOfDay(travelStart(events), z)
travelDayEnd(events, z) == setHoursEndOfDay(travelEnd(events), z)

InTravelDay(d, dayStart, dayEnd) == d.timestamp >= dayStart /\ d.timestamp <= dayEnd

IsHighStress_Strict(d) == d.type = "stress" /\ d.value > STRESS_THRESHOLD
IsHighStress(d) == d.type = "stress" /\ d.value >= STRESS_THRESHOLD

Project(s) == [i \in 1..Len(s) |-> [timestamp |-> s[i].timestamp, value |-> s[i].value]]

\* With no event Math.min() is Infinity and Math.max() is -Infinity, both
\* Dates are invalid, travelDayStart and travelDayEnd are NaN, and every
\* comparison of the first filter is false.
highStressPeriods(health, events, z) ==
    IF Len(events) = 0 THEN <<>>
    ELSE LET ds == travelDayStart(events, z)
             de == travelDayEnd(events, z)
             inDay == Filter(health, [d \in {health[i] : i \in 1..Len(health)} |-> InTravelDay(d, ds, de)])
             high == Filter(inDay, [d \in {inDay[i] : i \in 1..Len(inDay)} |-> IsHighStress(d)])
         IN Project(high)

\* ------------------------------------------------------- collaborator data
\* parseSamsungHealthZip resolves with samples sorted by timestamp.
IsSortedByTimestamp(s) == \A i \in 1..(Len(s) - 1) : s[i].timestamp <= s[i + 1].timestamp

SampleHigh == [timestamp |-> MsPerDay + 12 * MsPerHour, value |-> 90, type |-> "stress"]
SampleLow == [timestamp |-> 2 * MsPerDay + 1 * MsPerHour, value |-> 70, type |-> "stress"]

\* What parseSamsungHealthZip resolves with: no sample, or one or two
\* samples in timestamp order.
WatchResults == {<<>>, <<SampleHigh>>, <<SampleLow>>, <<SampleHigh, SampleLow>>}

\* A timestamp_iso is a UTC instant, written here by its day number since the
\* epoch, hour and minute.  FlightEvent.timestamp is an epoch-millisecond
\* integer: strings that are no ISO-8601 instant are outside this model.
DateParse(iso) == iso.day * MsPerDay + iso.hour * MsPerHour + iso.minute * 60 * 1000

ItemTakeoff ==
    [event |-> "Takeoff (Leg 1)", timestamp_iso |-> [day |-> 1, hour |-> 10, minute |-> 0], details |-> "UA1"]
ItemLanding ==
    [event |-> "Landing (Leg 1)", timestamp_iso |-> [day |-> 1, hour |-> 14, minute |-> 0], details |-> "UA1"]

\* response.text of the flight-document call: text that is no JSON, JSON
\* without an events array, or {summary, events} with the events in whatever
\* order the answer lists them, an empty list included.
FlightResponses ==
    {[shape |-> sh, summary |-> "", events |-> <<>>] : sh \in {"invalid_json", "missing_events"}}
        \cup {[shape |-> "ok", summary |-> "summary", events |-> items] :
                  items \in {<<>>, <<ItemTakeoff>>, <<ItemTakeoff, ItemLanding>>,
                             <<ItemLanding, ItemTakeoff>>}}

\* extractFlightTimeline (lines 95-104): JSON.parse throws a SyntaxError,
\* parsedJson.events.map a TypeError
extractFlightTimelineThrows(r) == r.shape # "ok"

extractFlightTimeline(r) ==
    [summary |-> r.summary,
     events |-> [i \in 1..Len(r.events) |->
                    [event |-> r.events[i].event,
                     timestamp |-> DateParse(r.events[i].timestamp_iso),
                     details |-> r.events[i].details]]]

ParseError == [isError |-> TRUE, message |-> "Unexpected token in JSON"]

\* What a rejected promise or a throw carries: an Error with a message, or
\* a value that is not an Error.
Thrown == {[isError |-> TRUE, message |-> "request failed"], [isError |-> FALSE, message |-> ""]}

\* analyzeStressPatterns resolves with response.text, which may be empty.
InsightTexts == {"", "insight"}

NoDataMessage == "Could not find compatible stress or heart rate data in the zip file. Please check the file structure."

\* ----------------------------------------------------------- App.tsx state
State ==
    [appState |-> appState, healthData |-> healthData, flightData |-> flightData,
     analysis |-> analysis, isLoading |-> isLoading,
     isAnalysisLoading |-> isAnalysisLoading, loadingMessage |-> loadingMessage,
     error |-> error]

\* e instanceof Error ? e.message : fallback
CaughtMessage_Dropped(e, fallback) == NoError
CaughtMessage(e, fallback) == IF e.isError THEN e.message ELSE fallback

\* handleWatchDataUpload up to its await (lines 25-29)
WatchStartFields(s) ==
    [s EXCEPT !.isLoading = TRUE,
              !.loadingMessage = "Analyzing your smartwatch data... This may take a moment.",
              !.error = NoError]

\* line 30
WatchDataRejected_Never(data) == FALSE
WatchDataRejected(data) == Len(data) = 0

\* handleWatchDataUpload after its await (lines 29-40); rejected: the promise
\* rejected with e, else it resolved with data
WatchSettleFields(s, rejected, e, data) ==
    IF rejected \/ WatchDataRejected(data)
    THEN LET caught == IF rejected THEN e ELSE [isError |-> TRUE, message |-> NoDataMessage]
         IN [s EXCEPT !.error = CaughtMessage(caught, "An unknown error occurred during zip file processing."),
                      !.appState = AWAITING_WATCH_DATA,
                      !.isLoading = FALSE]
    ELSE [s EXCEPT !.healthData = data,
                   !.appState = AWAITING_FLIGHT_DATA,
                   !.isLoading = FALSE]

\* handleFlightDataUpload up to its first await (lines 44-48)
FlightStartFields(s) ==
    [s EXCEPT !.isLoading = TRUE,
              !.loadingMessage = "Extracting flight details with Gemini AI...",
              !.error = NoError]

\* handleFlightDataUpload after its awaits (lines 48-57); rejected: fileToBase64
\* or extractFlightTimeline rejected (JSON.parse and the events map included)
FlightSettleFields(s, rejected, e, data) ==
    IF rejected
    THEN [s EXCEPT !.error = CaughtMessage(e, "An unknown error occurred while analyzing the flight PDF."),
                   !.appState = AWAITING_FLIGHT_DATA,
                   !.isLoading = FALSE]
    ELSE [s EXCEPT !.flightData = <<data>>,
                   !.appState = DISPLAYING_RESULTS,
                   !.isLoading = FALSE]

\* handleGenerateAnalysis up to its await (lines 61-85)
GenerateStartFields(s) ==
    IF s.flightData = NoFlight THEN s
    ELSE [s EXCEPT !.isAnalysisLoading = TRUE, !.error = NoError]

\* handleGenerateAnalysis after its await (lines 85-91)
GenerateSettleFields(s, rejected, e, insight) ==
    IF rejected
    THEN [s EXCEPT !.error = CaughtMessage(e, "Failed to generate AI analysis."),
                   !.isAnalysisLoading = FALSE]
    ELSE [s EXCEPT !.analysis = insight, !.isAnalysisLoading = FALSE]

\* resetApp (lines 138-146)
ResetAppFields_KeepsAppState(s) ==
    [s EXCEPT !.healthData = <<>>, !.flightData = NoFlight, !.analysis = "",
              !.error = NoError, !.isLoading = FALSE, !.isAnalysisLoading = FALSE]
ResetAppFields(s) ==
    [s EXCEPT !.appState = AWAITING_WATCH_DATA, !.healthData = <<>>,
              !.flightData = NoFlight, !.analysis = "", !.error = NoError,
              !.isLoading = FALSE, !.isAnalysisLoading = FALSE]

\* renderContent (lines 100-136): which upload surface is on screen
renderContent_NoLoader(ld, st) ==
    IF st = AWAITING_WATCH_DATA THEN "watch"
    ELSE IF st = AWAITING_FLIGHT_DATA THEN "flight" ELSE "none"
renderContent(ld, st) ==
    IF ld THEN "none"
    ELSE IF st = AWAITING_WATCH_DATA THEN "watch"
    ELSE IF st = AWAITING_FLIGHT_DATA THEN "flight"
    ELSE "none"

\* lines 170-180: the Start New Analysis button
ResetButtonRendered(st) == st = DISPLAYING_RESULTS

\* AnalysisPanel: what the panel shows
AnalysisPanel(an, ld) ==
    IF ld THEN "loader" ELSE IF an # "" THEN "analysis" ELSE "unavailable"

\* useEffect (lines 94-98): the dependency list; handleGenerateAnalysis is
\* re-created when healthData or flightData change (line 92)
EffectDeps(s) == <<s.appState, s.flightData, s.analysis, s.isAnalysisLoading, s.healthData>>

EffectCondition(s) ==
    /\ s.appState = DISPLAYING_RESULTS
    /\ s.flightData # NoFlight
    /\ s.analysis = ""
    /\ ~s.isAnalysisLoading

\* The effect calls handleGenerateAnalysis in the commit that follows a
\* state update when a dependency changed and the condition holds.
EffectFires(old, new) == EffectDeps(old) # EffectDeps(new) /\ EffectCondition(new)

NoStep ==
    [op |-> "init", failed |-> FALSE, started |-> FALSE, sess |-> 0,
     h0 |-> <<>>, f0 |-> NoFlight, st0 |-> AWAITING_WATCH_DATA, data |-> <<>>]

NoSrc == [health |-> <<>>, flight |-> NoFlight]

\* Commit of the state s1 an event handler or continuation produced, followed
\* by the effect; up1 and calls0 are the pending promises it leaves, step
\* describes it, load says whether it is a user action or a flight-data load.
Commit(s1, up1, calls0, src1, step, load, sess1) ==
    LET fire == EffectFires(State, s1) /\ s1.flightData # NoFlight
        s2 == IF fire THEN GenerateStartFields(s1) ELSE s1
        call == [id |-> nCalls + 1, sess |-> sess1,
                 health |-> s1.healthData, flight |-> s1.flightData,
                 periods |-> highStressPeriods(s1.healthData, s1.flightData[1].events, tz)]
    IN /\ fire => nCalls < MaxCalls
       /\ appState' = s2.appState
       /\ healthData' = s2.healthData
       /\ flightData' = s2.flightData
       /\ analysis' = s2.analysis
       /\ isLoading' = s2.isLoading
       /\ isAnalysisLoading' = s2.isAnalysisLoading
       /\ loadingMessage' = s2.loadingMessage
       /\ error' = s2.error
       /\ uploads' = up1
       /\ calls' = IF fire THEN calls0 \cup {call} ELSE calls0
       /\ nCalls' = IF fire THEN nCalls + 1 ELSE nCalls
       /\ startsSinceLoad' = (IF load THEN 0 ELSE startsSinceLoad) + (IF fire THEN 1 ELSE 0)
       /\ analysisSrc' = src1
       /\ last' = [step EXCEPT !.started = fire]
       /\ session' = sess1
       /\ UNCHANGED <<tz, filterVars, vizVars, zipVars>>

NewUploadId == CHOOSE i \in 1..(Cardinality(uploads) + 1) : \A u \in uploads : u.id # i

Step(op) == [NoStep EXCEPT !.op = op, !.sess = session, !.h0 = healthData,
                           !.f0 = flightData, !.st0 = appState]

\* ----------------------------------------------------------------- actions
handleWatchDataUpload ==
    /\ renderContent(isLoading, appState) = "watch"
    /\ Commit(WatchStartFields(State),
              uploads \cup {[id |-> NewUploadId, kind |-> "watch", h0 |-> healthData, f0 |-> flightData]},
              calls, analysisSrc, Step("watchStart"), TRUE, session)

handleWatchDataUploadSettled ==
    \E u \in uploads :
        /\ u.kind = "watch"
        /\ \/ \E e \in Thrown :
                Commit(WatchSettleFields(State, TRUE, e, <<>>), uploads \ {u}, calls, analysisSrc,
                       [Step("watchSettled") EXCEPT !.failed = TRUE, !.h0 = u.h0, !.f0 = u.f0], FALSE, session)
           \/ \E data \in WatchResults :
                Commit(WatchSettleFields(State, FALSE, ParseError, data),
                       uploads \ {u}, calls, analysisSrc,
                       [Step("watchSettled") EXCEPT !.data = data, !.h0 = u.h0, !.f0 = u.f0], FALSE, session)

handleFlightDataUpload ==
    /\ renderContent(isLoading, appState) = "flight"
    /\ Commit(FlightStartFields(State),
              uploads \cup {[id |-> NewUploadId, kind |-> "flight", h0 |-> healthData, f0 |-> flightData]},
              calls, analysisSrc, Step("flightStart"), TRUE, session)

handleFlightDataUploadSettled ==
    \E u \in uploads :
        /\ u.kind = "flight"
        /\ \/ \E e \in Thrown :
                Commit(FlightSettleFields(State, TRUE, e, extractFlightTimeline(CHOOSE r \in FlightResponses : TRUE)),
                       uploads \ {u}, calls, analysisSrc,
                       [Step("flightSettled") EXCEPT !.failed = TRUE, !.h0 = u.h0, !.f0 = u.f0],
                       FALSE, session)
           \/ \E r \in FlightResponses :
                Commit(FlightSettleFields(State, extractFlightTimelineThrows(r), ParseError, extractFlightTimeline(r)),
                       uploads \ {u}, calls, analysisSrc,
                       [Step("flightSettled") EXCEPT !.failed = extractFlightTimelineThrows(r),
                                                     !.h0 = u.h0, !.f0 = u.f0],
                       ~extractFlightTimelineThrows(r), session)

handleGenerateAnalysisSettled ==
    \E c \in calls :
        \/ \E e \in Thrown :
             Commit(GenerateSettleFields(State, TRUE, e, ""), uploads, calls \ {c}, analysisSrc,
                    [Step("insightSettled") EXCEPT !.failed = TRUE, !.sess = c.sess], FALSE, session)
        \/ \E insight \in InsightTexts :
             Commit(GenerateSettleFields(State, FALSE, ParseError, insight),
                    uploads, calls \ {c},
                    [health |-> c.health, flight |-> c.flight],
                    [Step("insightSettled") EXCEPT !.sess = c.sess], FALSE, session)

resetApp ==
    /\ ResetButtonRendered(appState)
    /\ session < MaxResets
    /\ Commit(ResetAppFields(State), uploads, calls, NoSrc, Step("resetApp"), TRUE, session + 1)

FilterIdle ==
    /\ fpc = "idle"
    /\ fHealth = <<>>
    /\ fEvents = <<>>
    /\ window = [dayStart |-> 0, dayEnd |-> 0]
    /\ payload = <<>>

\* DataVisualization.tsx line 77: useState({ start: 0, end: 0 })
InitialTimeRange == [start |-> 0, end |-> 0]

NoVizStep ==
    [op |-> "none", name |-> "", value |-> <<>>, prev |-> InitialTimeRange, prevChart |-> <<>>]

VizIdle ==
    /\ vEvents = <<>>
    /\ vHealth = <<>>
    /\ timeRange = InitialTimeRange
    /\ filteredHealthData = <<>>
    /\ chartData = <<>>
    /\ vlast = NoVizStep
    /\ ppc = "idle"
    /\ areasRaw = <<>>
    /\ shownAreas = <<>>

\* The promise of parseSamsungHealthZip before it settles
NoZipResult == [status |-> "pending", healthData |-> <<>>]

ZipIdle ==
    /\ zpc = "idle"
    /\ zArchive = <<>>
    /\ zResult = NoZipResult

\* App.tsx lines 15-22
SessInit ==
    /\ appState = AWAITING_WATCH_DATA
    /\ healthData = <<>>
    /\ flightData = NoFlight
    /\ analysis = ""
    /\ isLoading = FALSE
    /\ isAnalysisLoading = FALSE
    /\ loadingMessage = ""
    /\ error = NoError
    /\ uploads = {}
    /\ calls = {}
    /\ nCalls = 0
    /\ session = 0
    /\ startsSinceLoad = 0
    /\ analysisSrc = NoSrc
    /\ last = NoStep

Init ==
    /\ appState = AWAITING_WATCH_DATA
    /\ healthData = <<>>
    /\ flightData = NoFlight
    /\ analysis = ""
    /\ isLoading = FALSE
    /\ isAnalysisLoading = FALSE
    /\ loadingMessage = ""
    /\ error = NoError
    /\ uploads = {}
    /\ calls = {}
    /\ nCalls = 0
    /\ session = 0
    /\ startsSinceLoad = 0
    /\ analysisSrc = NoSrc
    /\ last = NoStep
    /\ tz \in TzOffsets
    /\ FilterIdle
    /\ VizIdle
    /\ ZipIdle

Next ==
    \/ handleWatchDataUpload
    \/ handleWatchDataUploadSettled
    \/ handleFlightDataUpload
    \/ handleFlightDataUploadSettled
    \/ handleGenerateAnalysisSettled
    \/ resetApp

Spec == Init /\ [][Next]_vars

\* --------------------------------------------------------------- SpecFilter
\* Lines 65-83 of handleGenerateAnalysis applied to a health-sample sequence
\* (sorted, as parseSamsungHealthZip returns it) and a non-empty event list
\* in any order.  The instants are the local-time ends and starts of four
\* consecutive days: 23:59:59.999 of day 0, 00:00:00.000 and 23:59:59.999 of
\* days 1 and 2, 00:00:00.000 of day 3.
FilterTimes(z) ==
    {d * MsPerDay - z : d \in 1..3} \cup {d * MsPerDay - z - 1 : d \in 1..3}

FilterValues == {STRESS_THRESHOLD - 1, STRESS_THRESHOLD, STRESS_THRESHOLD + 10}

FilterSamples(z) ==
    {[timestamp |-> t, value |-> v, type |-> "stress"] : t \in FilterTimes(z), v \in FilterValues}

FilterEvents(z) ==
    {[event |-> "Takeoff (Leg 1)", timestamp |-> t, details |-> "UA1"] : t \in FilterTimes(z)}

InitFilter ==
    /\ appState = AWAITING_WATCH_DATA
    /\ healthData = <<>>
    /\ flightData = NoFlight
    /\ analysis = ""
    /\ isLoading = FALSE
    /\ isAnalysisLoading = FALSE
    /\ loadingMessage = ""
    /\ error = NoError
    /\ uploads = {}
    /\ calls = {}
    /\ nCalls = 0
    /\ session = 0
    /\ startsSinceLoad = 0
    /\ analysisSrc = NoSrc
    /\ last = NoStep
    /\ tz \in TzOffsets
    /\ fpc = "input"
    /\ fHealth \in {s \in SeqsUpTo(FilterSamples(tz), MaxFilterSamples) : IsSortedByTimestamp(s)}
    /\ fEvents \in SeqsUpTo(FilterEvents(tz), MaxFilterEvents) \ {<<>>}
    /\ window = [dayStart |-> 0, dayEnd |-> 0]
    /\ payload = <<>>
    /\ VizIdle
    /\ ZipIdle

ComputeHighStressPeriods ==
    /\ fpc = "input"
    /\ fpc' = "done"
    /\ window' = [dayStart |-> travelDayStart(fEvents, tz), dayEnd |-> travelDayEnd(fEvents, tz)]
    /\ payload' = highStressPeriods(fHealth, fEvents, tz)
    /\ UNCHANGED <<sessVars, tz, fHealth, fEvents, vizVars, zipVars>>

NextFilter == ComputeHighStressPeriods

SpecFilter == InitFilter /\ [][NextFilter]_vars

\* -------------------------------------------------- DataVisualization.tsx
\* timeToLabel (line 139): toLocaleTimeString with hour and minute only, the
\* local HH:MM, written as the minute of the local day.
timeToLabel(ts, z) == ((ts + z) % MsPerDay) \div (60 * 1000)

\* event.event.toLowerCase().includes(kw) for the four keywords of
\* referenceAreas, by event name
Keywords(name) ==
    CASE name = "Takeoff (Leg 1)" -> {"takeoff"}
      [] name = "Landing (Leg 1)" -> {"landing"}
      [] name = "Transit Start" -> {"transit start"}
      [] name = "Transit End" -> {"transit end"}
      [] name = "Landing / Transit Start" -> {"landing", "transit start"}
      [] OTHER -> {}

includes(name, kw) == kw \in Keywords(name)

\* [...flightEvents].sort((a, b) => a.timestamp - b.timestamp): Array.sort
\* is stable
RECURSIVE InsertByTimestamp(_, _)
InsertByTimestamp(sorted, e) ==
    IF sorted = <<>> THEN <<e>>
    ELSE IF e.timestamp < sorted[1].timestamp THEN <<e>> \o sorted
    ELSE <<sorted[1]>> \o InsertByTimestamp(Tail(sorted), e)

RECURSIVE sortedEvents(_)
sortedEvents(events) ==
    IF events = <<>> THEN <<>>
    ELSE InsertByTimestamp(sortedEvents(SubSeq(events, 1, Len(events) - 1)), events[Len(events)])

\* lines 153-158: start === null is <<>>, start = t is <<t>>
ScanInit == [currentFlight |-> <<>>, currentTransit |-> <<>>, flightCount |-> 0, areas |-> <<>>]

\* line 162
OpensFlight_EvenWhenOpen(name, acc) == includes(name, "takeoff")
OpensFlight(name, acc) == includes(name, "takeoff") /\ acc.currentFlight = <<>>

\* lines 160-184, one event; label `In Flight ${flightCount}` is "In Flight"
\* with ordinal flightCount, label 'Transit' has ordinal 0
ScanEvent(acc, ev, z) ==
    IF OpensFlight(ev.event, acc)
    THEN [acc EXCEPT !.currentFlight = <<ev.timestamp>>]
    ELSE IF includes(ev.event, "landing") /\ acc.currentFlight # <<>>
    THEN [acc EXCEPT !.flightCount = @ + 1,
                     !.areas = Append(@, [x1 |-> timeToLabel(acc.currentFlight[1], z),
                                          x2 |-> timeToLabel(ev.timestamp, z),
                                          label |-> "In Flight",
                                          ordinal |-> acc.flightCount + 1]),
                     !.currentFlight = <<>>]
    ELSE IF includes(ev.event, "transit start") /\ acc.currentTransit = <<>>
    THEN [acc EXCEPT !.currentTransit = <<ev.timestamp>>]
    ELSE IF includes(ev.event, "transit end") /\ acc.currentTransit # <<>>
    THEN [acc EXCEPT !.areas = Append(@, [x1 |-> timeToLabel(acc.currentTransit[1], z),
                                          x2 |-> timeToLabel(ev.timestamp, z),
                                          label |-> "Transit",
                                          ordinal |-> 0]),
                     !.currentTransit = <<>>]
    ELSE acc

RECURSIVE Scan(_, _, _)
Scan(acc, evs, z) == IF evs = <<>> THEN acc ELSE Scan(ScanEvent(acc, evs[1], z), Tail(evs), z)

\* lines 153-184: areas before the filter of line 186
areas(events, z) == Scan(ScanInit, sortedEvents(events), z).areas

\* flightEvents.find(e => timeToLabel(e.timestamp) === label): <<>> when
\* undefined, else <<the first such event>>
find(events, label, z) ==
    LET hits == {i \in 1..Len(events) : timeToLabel(events[i].timestamp, z) = label}
    IN IF hits = {} THEN <<>>
       ELSE <<events[CHOOSE i \in hits : \A j \in hits : i <= j]>>

\* lines 186-191
AreaShown(area, events, range, z) ==
    LET startEvent == find(events, area.x1, z)
        endEvent == find(events, area.x2, z)
    IN IF startEvent = <<>> \/ endEvent = <<>> THEN FALSE
       ELSE startEvent[1].timestamp >= range.start /\ endEvent[1].timestamp <= range.end

referenceAreas(events, range, z) ==
    LET all == areas(events, z)
    IN Filter(all, [a \in {all[i] : i \in 1..Len(all)} |-> AreaShown(a, events, range, z)])

\* ---------------------------------------------------------------- SpecPhase
\* referenceAreas applied to event lists in any order and to a window.
\* T1..T4 are 10:00, 14:00, 16:00 and 20:00 UTC of day 1; PhaseTimes holds
\* T1, T2 and T1 one day later, which has the HH:MM label of T1.
T1 == MsPerDay + 10 * MsPerHour
T2 == MsPerDay + 14 * MsPerHour
T3 == MsPerDay + 16 * MsPerHour
T4 == MsPerDay + 20 * MsPerHour

PhaseTimes == {T1, T2, T1 + MsPerDay}

PhaseNames ==
    {"Takeoff (Leg 1)", "Landing (Leg 1)", "Transit Start", "Transit End",
     "Landing / Transit Start", "Boarding (Leg 1)"}

PhaseEvents == {[event |-> n, timestamp |-> t, details |-> "UA1"] : n \in PhaseNames, t \in PhaseTimes}

Ev(n, t) == [event |-> n, timestamp |-> t, details |-> "UA1"]

TwoLegItinerary ==
    <<Ev("Takeoff (Leg 1)", T1), Ev("Landing (Leg 1)", T2), Ev("Transit Start", T2),
      Ev("Transit End", T3), Ev("Takeoff (Leg 1)", T3), Ev("Landing (Leg 1)", T4)>>

THREE_HOURS_MS == 3 * 60 * 60 * 1000

PhaseRanges ==
    {InitialTimeRange,
     [start |-> T1 - THREE_HOURS_MS, end |-> T2 + THREE_HOURS_MS],
     [start |-> T1 - THREE_HOURS_MS, end |-> T1 + MsPerDay + THREE_HOURS_MS]}

InitPhase ==
    /\ SessInit
    /\ FilterIdle
    /\ ZipIdle
    /\ tz \in TzOffsets
    /\ vEvents \in SeqsUpTo(PhaseEvents, MaxPhaseEvents) \cup {TwoLegItinerary}
    /\ timeRange \in PhaseRanges
    /\ vHealth = <<>>
    /\ filteredHealthData = <<>>
    /\ chartData = <<>>
    /\ vlast = NoVizStep
    /\ ppc = "input"
    /\ areasRaw = <<>>
    /\ shownAreas = <<>>

ComputeReferenceAreas ==
    /\ ppc = "input"
    /\ ppc' = "done"
    /\ areasRaw' = areas(vEvents, tz)
    /\ shownAreas' = referenceAreas(vEvents, timeRange, tz)
    /\ UNCHANGED <<sessVars, filterVars, zipVars, tz, vEvents, vHealth, timeRange,
                   filteredHealthData, chartData, vlast>>

NextPhase == ComputeReferenceAreas

SpecPhase == InitPhase /\ [][NextPhase]_vars

\* ------------------------------ DataVisualization: time range and chart
\* new Date(value).getTime() of a datetime-local value: the wall-clock time w
\* read in the zone at offset z
DatetimeLocal(w, z) == w - z

\* lines 108-111
filteredHealthDataMemo_ExclusiveStart(health, range) ==
    IF range.start = 0 \/ range.end = 0 THEN health
    ELSE Filter(health, [d \in {health[i] : i \in 1..Len(health)} |->
                            d.timestamp > range.start /\ d.timestamp <= range.end])
filteredHealthDataMemo(health, range) ==
    IF range.start = 0 \/ range.end = 0 THEN health
    ELSE Filter(health, [d \in {health[i] : i \in 1..Len(health)} |->
                            d.timestamp >= range.start /\ d.timestamp <= range.end])

\* lines 116-117: the local minute of the sample, as an instant
minuteKey(ts, z) == ((ts + z) - ((ts + z) % (60 * 1000))) - z

\* stress of a bucket that no stress sample has written
NoStress == 0 - 1

\* lines 123-126
SetStress_KeepFirst(bucket, point) ==
    IF point.type = "stress" /\ bucket.stress = NoStress
    THEN [bucket EXCEPT !.stress = point.value] ELSE bucket
SetStress(bucket, point) ==
    IF point.type = "stress" THEN [bucket EXCEPT !.stress = point.value] ELSE bucket

\* lines 119-126 on a Map kept in insertion order
RECURSIVE MapPut(_, _, _)
MapPut(dataMap, key, point) ==
    IF dataMap = <<>> THEN <<SetStress([time |-> key, stress |-> NoStress], point)>>
    ELSE IF dataMap[1].time = key THEN <<SetStress(dataMap[1], point)>> \o Tail(dataMap)
    ELSE <<dataMap[1]>> \o MapPut(Tail(dataMap), key, point)

RECURSIVE dataMapOf(_, _)
dataMapOf(filtered, z) ==
    IF filtered = <<>> THEN <<>>
    ELSE LET point == filtered[Len(filtered)]
         IN MapPut(dataMapOf(SubSeq(filtered, 1, Len(filtered) - 1), z),
                   minuteKey(point.timestamp, z), point)

\* line 129: stable sort ascending by time
RECURSIVE InsertByTime(_, _)
InsertByTime(sorted, b) ==
    IF sorted = <<>> THEN <<b>>
    ELSE IF b.time < sorted[1].time THEN <<b>> \o sorted
    ELSE <<sorted[1]>> \o InsertByTime(Tail(sorted), b)

RECURSIVE sortedData(_)
sortedData(dataMap) ==
    IF dataMap = <<>> THEN <<>>
    ELSE InsertByTime(sortedData(SubSeq(dataMap, 1, Len(dataMap) - 1)), dataMap[Len(dataMap)])

\* lines 113-137
chartDataMemo(filtered, z) ==
    LET sd == sortedData(dataMapOf(filtered, z))
    IN [k \in 1..Len(sd) |-> [time |-> timeToLabel(sd[k].time, z), stress |-> sd[k].stress]]

\* lines 87-97
SeedRange_FirstLast(events) ==
    [start |-> events[1].timestamp - THREE_HOURS_MS,
     end |-> events[Len(events)].timestamp + THREE_HOURS_MS]
SeedRange(events) ==
    [start |-> MathMin(eventTimestamps(events)) - THREE_HOURS_MS,
     end |-> MathMax(eventTimestamps(events)) + THREE_HOURS_MS]

\* One render: the memos of lines 108-137 and 152-193
Render(events, health, range) ==
    /\ filteredHealthData' = filteredHealthDataMemo(health, range)
    /\ chartData' = chartDataMemo(filteredHealthDataMemo(health, range), tz)
    /\ areasRaw' = areas(events, tz)
    /\ shownAreas' = referenceAreas(events, range, tz)

VizStep(op, name, value) ==
    [op |-> op, name |-> name, value |-> value, prev |-> timeRange, prevChart |-> chartData]

H(t, v) == [timestamp |-> t, value |-> v, type |-> "stress"]

\* healthData as parseSamsungHealthZip returns it: in timestamp order
VizHealthLists ==
    {<<>>,
     <<H(T1 - 4 * MsPerHour, 60)>>,
     <<H(T1, 85), H(T1 + 30 * 1000, 70)>>,
     <<H(T1 - 4 * MsPerHour, 60), H(T1 - THREE_HOURS_MS, 75), H(T1, 85),
       H(T1 + 30 * 1000, 70), H(T2, 90), H(T1 + MsPerDay, 95)>>}

VizEventLists ==
    {<<>>,
     <<Ev("Takeoff (Leg 1)", T1)>>,
     <<Ev("Takeoff (Leg 1)", T1), Ev("Landing (Leg 1)", T2)>>,
     <<Ev("Landing (Leg 1)", T2), Ev("Takeoff (Leg 1)", T1)>>}

\* e.target.value of the datetime-local inputs: empty, or a wall-clock time
EditValues == {<<>>, <<T1>>, <<T4>>}

\* Mount: the first render, with the initial timeRange, before the effect
InitViz ==
    /\ SessInit
    /\ FilterIdle
    /\ ZipIdle
    /\ tz \in TzOffsets
    /\ vEvents \in VizEventLists
    /\ vHealth \in VizHealthLists
    /\ timeRange = InitialTimeRange
    /\ filteredHealthData = filteredHealthDataMemo(vHealth, InitialTimeRange)
    /\ chartData = chartDataMemo(filteredHealthDataMemo(vHealth, InitialTimeRange), tz)
    /\ areasRaw = areas(vEvents, tz)
    /\ shownAreas = referenceAreas(vEvents, InitialTimeRange, tz)
    /\ vlast = [NoVizStep EXCEPT !.op = "mount"]
    /\ ppc = "effect"

\* lines 85-99: the effect, after the render that mounted the component or
\* changed flightEvents
useEffectTimeRange ==
    /\ ppc = "effect"
    /\ LET range == IF Len(vEvents) > 0 THEN SeedRange(vEvents) ELSE timeRange
       IN /\ timeRange' = range
          /\ Render(vEvents, vHealth, range)
    /\ vlast' = VizStep("effect", "", <<>>)
    /\ ppc' = "ready"
    /\ UNCHANGED <<sessVars, filterVars, zipVars, tz, vEvents, vHealth>>

\* The parent passes another flightEvents list
flightEventsChange(events) ==
    /\ ppc = "ready"
    /\ events # vEvents
    /\ vEvents' = events
    /\ Render(events, vHealth, timeRange)
    /\ vlast' = VizStep("props", "", <<>>)
    /\ ppc' = "effect"
    /\ UNCHANGED <<sessVars, filterVars, zipVars, tz, vHealth, timeRange>>

\* lines 101-106
handleTimeChange(name, value) ==
    /\ ppc = "ready"
    /\ IF value = <<>>
       THEN UNCHANGED <<timeRange, filteredHealthData, chartData, areasRaw, shownAreas>>
       ELSE LET range == [timeRange EXCEPT ![name] = DatetimeLocal(value[1], tz)]
            IN /\ timeRange' = range
               /\ Render(vEvents, vHealth, range)
    /\ vlast' = VizStep("edit", name, value)
    /\ UNCHANGED <<sessVars, filterVars, zipVars, tz, vEvents, vHealth, ppc>>

\* The parent renders again with the same props
rerender ==
    /\ ppc = "ready"
    /\ Render(vEvents, vHealth, timeRange)
    /\ vlast' = VizStep("rerender", "", <<>>)
    /\ UNCHANGED <<sessVars, filterVars, zipVars, tz, vEvents, vHealth, timeRange, ppc>>

NextViz ==
    \/ useEffectTimeRange
    \/ \E events \in VizEventLists : flightEventsChange(events)
    \/ \E name \in {"start", "end"}, value \in EditValues : handleTimeChange(name, value)
    \/ rerender

SpecViz == InitViz /\ [][NextViz]_vars

\* ------------------------------------------------- parseSamsungHealthZip
MAX_FILES_TO_PROCESS == 500

\* JSON values of the fields end_time and score: absent (undefined), null, a
\* number, or a string.  A string end_time is left out: it makes the
\* comparator of line 50 inconsistent and the order of the result
\* implementation-defined.
Undefined == [t |-> "undefined", n |-> 0]
Null == [t |-> "null", n |-> 0]
Number(n) == [t |-> "number", n |-> n]
String == [t |-> "string", n |-> 0]

\* An element of a record container: an object with the two fields, or null
Point(end_time, score) == [t |-> "object", end_time |-> end_time, score |-> score]
NullPoint == [t |-> "null", end_time |-> Undefined, score |-> Undefined]

\* The value of the fields data and binning_data
Absent == [t |-> "undefined", items |-> <<>>]
NullField == [t |-> "null", items |-> <<>>]
ObjectField == [t |-> "object", items |-> <<>>]
Array(items) == [t |-> "array", items |-> items]

\* The text of a member file, by what JSON.parse makes of it
InvalidJson == [kind |-> "invalid", top |-> Absent, data |-> Absent, binning_data |-> Absent]
TopArray(items) == [kind |-> "array", top |-> Array(items), data |-> Absent, binning_data |-> Absent]
TopObject(data, binning_data) ==
    [kind |-> "object", top |-> Absent, data |-> data, binning_data |-> binning_data]
TopNull == [kind |-> "null", top |-> Absent, data |-> Absent, binning_data |-> Absent]

\* lines 13-14
Qualifies(path) == path.endsWithBinningDataJson /\ path.includesStress

StressPath == [endsWithBinningDataJson |-> TRUE, includesStress |-> TRUE]
OtherPath == [endsWithBinningDataJson |-> TRUE, includesStress |-> FALSE]

\* line 26: x || y
Truthy(v) == v.t \in {"object", "array"}

\* line 26.  Reading a field of null throws.
dataPointsThrows(data) == data.kind = "null"

dataPoints(data) ==
    IF data.kind = "array" THEN data.top
    ELSE IF Truthy(data.data) THEN data.data
    ELSE IF Truthy(data.binning_data) THEN data.binning_data
    ELSE Array(<<>>)

\* line 36
BothDefined(value, timestamp) == value.t # "undefined" /\ timestamp.t # "undefined"

\* lines 28-42: the samples pushed by the loop over dataPoints, and whether
\* it threw (point.end_time of a null point)
RECURSIVE PushPoints(_, _)
PushPoints(points, pushed) ==
    IF points = <<>> THEN [threw |-> FALSE, pushed |-> pushed]
    ELSE IF points[1].t = "null" THEN [threw |-> TRUE, pushed |-> pushed]
    ELSE LET timestamp == points[1].end_time
             value == points[1].score
         IN PushPoints(Tail(points),
                       IF BothDefined(value, timestamp)
                       THEN Append(pushed, [timestamp |-> timestamp, value |-> value, type |-> "stress"])
                       ELSE pushed)

\* lines 23-42: the body of the try
TryBody(content) ==
    IF content.kind = "invalid" \/ dataPointsThrows(content)
    THEN [threw |-> TRUE, pushed |-> <<>>]
    ELSE LET dp == dataPoints(content)
         IN IF dp.t # "array" THEN [threw |-> TRUE, pushed |-> <<>>]   \* not iterable
            ELSE PushPoints(dp.items, <<>>)

\* lines 44-46
Catch_Rethrow(r) == r
Catch(r) == [r EXCEPT !.threw = FALSE]

\* lines 12-18
RECURSIVE filesToProcess(_)
filesToProcess(archive) ==
    IF archive = <<>> THEN <<>>
    ELSE IF Qualifies(archive[1].path)
         THEN <<archive[1]>> \o filesToProcess(Tail(archive))
         ELSE filesToProcess(Tail(archive))

slice(s, n) == SubSeq(s, 1, IF Len(s) < n THEN Len(s) ELSE n)

\* lines 20-47: healthData after the loop, and whether an exception left it
RECURSIVE ProcessFiles(_, _)
ProcessFiles(files, acc) ==
    IF files = <<>> THEN [threw |-> FALSE, pushed |-> acc]
    ELSE LET r == Catch(TryBody(files[1].content))
         IN IF r.threw THEN [threw |-> TRUE, pushed |-> acc \o r.pushed]
            ELSE ProcessFiles(Tail(files), acc \o r.pushed)

\* a.timestamp - b.timestamp: null counts as 0
ToNumber(v) == IF v.t = "number" THEN v.n ELSE 0

\* line 50
RECURSIVE InsertSample(_, _)
InsertSample(sorted, d) ==
    IF sorted = <<>> THEN <<d>>
    ELSE IF ToNumber(d.timestamp) - ToNumber(sorted[1].timestamp) < 0 THEN <<d>> \o sorted
    ELSE <<sorted[1]>> \o InsertSample(Tail(sorted), d)

RECURSIVE sortSamples(_)
sortSamples(s) ==
    IF s = <<>> THEN <<>>
    ELSE InsertSample(sortSamples(SubSeq(s, 1, Len(s) - 1)), s[Len(s)])

\* lines 7-53, given the archive JSZip.loadAsync resolved with
parseSamsungHealthZip(archive) ==
    LET r == ProcessFiles(slice(filesToProcess(archive), MAX_FILES_TO_PROCESS), <<>>)
    IN IF r.threw THEN [status |-> "rejected", healthData |-> <<>>]
       ELSE [status |-> "resolved", healthData |-> sortSamples(r.pushed)]

PointA == Point(Number(100), Number(85))
PointB == Point(Number(50), Number(60))

ZipContents ==
    {InvalidJson,
     TopNull,
     TopArray(<<PointA>>),
     TopArray(<<PointB, Point(Number(90), Undefined), PointA>>),
     TopArray(<<PointB, Point(Number(70), Null)>>),
     TopArray(<<Point(Number(80), String)>>),
     TopArray(<<Point(Null, Number(75))>>),
     TopArray(<<PointB, NullPoint, PointA>>),
     TopObject(Array(<<PointA>>), Absent),
     TopObject(Absent, Array(<<PointB>>)),
     TopObject(ObjectField, Array(<<PointB>>)),
     TopObject(NullField, Array(<<PointA>>)),
     TopObject(Absent, Absent)}

ZipFiles ==
    {[path |-> StressPath, content |-> c] : c \in ZipContents}
        \cup {[path |-> OtherPath, content |-> TopArray(<<PointA>>)]}

InitZip ==
    /\ SessInit
    /\ FilterIdle
    /\ VizIdle
    /\ tz \in TzOffsets
    /\ zpc = "input"
    /\ zArchive \in SeqsUpTo(ZipFiles, MaxZipFiles)
    /\ zResult = NoZipResult

ParseSamsungHealthZipSettled ==
    /\ zpc = "input"
    /\ zpc' = "done"
    /\ zResult' = parseSamsungHealthZip(zArchive)
    /\ UNCHANGED <<sessVars, filterVars, vizVars, tz, zArchive>>

NextZip == ParseSamsungHealthZipSettled

SpecZip == InitZip /\ [][NextZip]_vars

\* ------------------------------------------------------------------ claims

\* C1: between a successful flight-data load and the next user action (an
\* upload or resetApp) the insight call is started at most once, whatever
\* its outcome.
C1_AtMostOneStartPerLoad == startsSinceLoad <= 1

\* C2: at most one insight-generation call is in flight at any time, for any
\* interleaving of uploads, resetApp and settlements.
C2_AtMostOneInsightInFlight == Cardinality(calls) <= 1

\* C3: a non-empty analysis was produced by an insight call whose inputs
\* were the resident healthData and flightData, and a call started before a
\* resetApp does not settle into the state after that reset.
C3_OnlyCurrentSessionWrites ==
    /\ analysis # "" => analysisSrc = [health |-> healthData, flight |-> flightData]
    /\ last.op = "insightSettled" => last.sess = session

\* C4: at most one upload is in flight; isLoading is true exactly while it
\* is, no upload surface is rendered meanwhile, and isLoading is false once
\* the upload has settled, on success and on failure alike.
C4_SingleUploadInFlight ==
    /\ Cardinality(uploads) <= 1
    /\ isLoading <=> uploads # {}
    /\ uploads # {} => renderContent(isLoading, appState) = "none"
    /\ last.op \in {"watchSettled", "flightSettled"} => ~isLoading

C4_Witness ==
    /\ Cardinality(uploads) = 1
    /\ isLoading
    /\ last.op = "flightStart"

\* C5: DISPLAYING_RESULTS implies flightData non-null and healthData
\* non-empty, and every insight call is started in such a state, on such
\* inputs.
C5_ResultsHaveBothInputs ==
    /\ appState = DISPLAYING_RESULTS => flightData # NoFlight /\ healthData # <<>>
    /\ last.started => appState = DISPLAYING_RESULTS /\ flightData # NoFlight /\ healthData # <<>>
    /\ \A c \in calls : c.health # <<>> /\ c.flight # NoFlight

C5_Witness ==
    /\ last.started
    /\ last.op = "flightSettled"
    /\ \E c \in calls : c.health = healthData /\ c.flight = flightData

\* C6: after a failed flight-document call (a rejection or an unparseable
\* result) appState is AWAITING_FLIGHT_DATA, error is set, isLoading is false
\* and healthData and flightData are what they were before the upload.
C6_FlightFailureRestoresInputState ==
    (last.op = "flightSettled" /\ last.failed) =>
        /\ appState = AWAITING_FLIGHT_DATA
        /\ error # NoError
        /\ ~isLoading
        /\ healthData = last.h0
        /\ flightData = last.f0

C6_Witness ==
    /\ last.op = "flightSettled"
    /\ last.failed
    /\ error = ParseError.message
    /\ healthData # <<>>

\* C7: a failed insight call of the current session leaves appState
\* (DISPLAYING_RESULTS), healthData and flightData unchanged and analysis
\* empty, and the analysis panel settles in "analysis unavailable".
C7_InsightFailureSettlesUnavailable ==
    (last.op = "insightSettled" /\ last.failed /\ last.sess = session) =>
        /\ appState = DISPLAYING_RESULTS
        /\ appState = last.st0
        /\ healthData = last.h0
        /\ flightData = last.f0
        /\ analysis = ""
        /\ AnalysisPanel(analysis, isAnalysisLoading) = "unavailable"

\* C8: a watch upload whose extraction yields zero samples ends with an error
\* set, appState AWAITING_WATCH_DATA, healthData unchanged and isLoading
\* false; appState becomes AWAITING_FLIGHT_DATA only by an extraction that
\* yields at least one sample.
C8_EmptyExtractionIsUsageError ==
    /\ (last.op = "watchSettled" /\ ~last.failed /\ Len(last.data) = 0) =>
           /\ error # NoError
           /\ appState = AWAITING_WATCH_DATA
           /\ healthData = last.h0
           /\ ~isLoading
    /\ (last.op = "watchSettled" /\ appState = AWAITING_FLIGHT_DATA) =>
           ~last.failed /\ Len(last.data) >= 1 /\ healthData = last.data
    /\ appState = AWAITING_FLIGHT_DATA => Len(healthData) >= 1

C8_Witness ==
    /\ last.op = "watchSettled"
    /\ ~last.failed
    /\ Len(last.data) = 0
    /\ error = NoDataMessage

\* C9: the payload handed to the insight call is exactly the subsequence, in
\* input order, of the samples with dayStart <= timestamp <= dayEnd, type
\* stress and value >= 80, projected to {timestamp, value}; no sample below
\* 80 or outside [dayStart, dayEnd] is in it and no qualifying one is missing.
C9_Qualifying ==
    {i \in 1..Len(fHealth) :
        /\ window.dayStart <= fHealth[i].timestamp
        /\ fHealth[i].timestamp <= window.dayEnd
        /\ fHealth[i].type = "stress"
        /\ fHealth[i].value >= 80}

C10_TravelWindowCoversEventDays ==
    fpc = "done" =>
        LET ts == {fEvents[i].timestamp : i \in 1..Len(fEvents)}
            lo == CHOOSE t \in ts : \A u \in ts : t <= u
            hi == CHOOSE t \in ts : \A u \in ts : t >= u
        IN /\ (window.dayStart + tz) % MsPerDay = 0
           /\ window.dayStart <= lo
           /\ lo < window.dayStart + MsPerDay
           /\ (window.dayEnd + tz) % MsPerDay = MsPerDay - 1
           /\ hi <= window.dayEnd
           /\ window.dayEnd - MsPerDay < hi
           /\ \A t \in ts : window.dayStart <= t /\ t <= window.dayEnd

C10_Witness ==
    /\ fpc = "done"
    /\ Len(fEvents) = 2
    /\ fEvents[1].timestamp > fEvents[2].timestamp
    /\ window.dayStart + MsPerDay - 1 = fEvents[2].timestamp
    /\ window.dayEnd - MsPerDay + 1 = fEvents[1].timestamp

\* C11: the travel-window derivation and the insight call never run on an
\* empty flight-event list: when the flight-document call returns events = []
\* no insight call is started.
C11_NoInsightOnEmptyEvents ==
    /\ \A c \in calls : Len(c.flight[1].events) > 0
    /\ last.started => Len(flightData[1].events) > 0

\* The events of vEvents in timestamp order, ties in input order.
SortedPos(i) ==
    1 + Cardinality({j \in 1..Len(vEvents) :
                        \/ vEvents[j].timestamp < vEvents[i].timestamp
                        \/ vEvents[j].timestamp = vEvents[i].timestamp /\ j < i})

InOrder == [k \in 1..Len(vEvents) |-> vEvents[CHOOSE i \in 1..Len(vEvents) : SortedPos(i) = k]]

\* <<i, j>>: the event at i opens an interval (it carries the keyword open
\* and every earlier opener has a closer between it and i) and the event at
\* j is the first one after i that carries the keyword close.
IntervalPairs(open, close) ==
    {p \in (1..Len(vEvents)) \X (1..Len(vEvents)) :
        /\ p[1] < p[2]
        /\ includes(InOrder[p[1]].event, open)
        /\ includes(InOrder[p[2]].event, close)
        /\ \A m \in (p[1] + 1)..(p[2] - 1) : ~includes(InOrder[m].event, close)
        /\ \A o \in 1..(p[1] - 1) :
              includes(InOrder[o].event, open) =>
                  \E m \in (o + 1)..(p[1] - 1) : includes(InOrder[m].event, close)}

FlightPairs == IntervalPairs("takeoff", "landing")
TransitPairs == IntervalPairs("transit start", "transit end")

\* The intervals in the order in which their closing events are seen, with
\* the timestamps of their own opening and closing events.
OwnIntervals ==
    LET pairs == FlightPairs \cup TransitPairs
        nth(k) == CHOOSE p \in pairs : Cardinality({q \in pairs : q[2] <= p[2]}) = k
    IN [k \in 1..Cardinality(pairs) |->
           LET p == nth(k)
           IN [start |-> InOrder[p[1]].timestamp,
               end |-> InOrder[p[2]].timestamp,
               label |-> IF p \in FlightPairs THEN "In Flight" ELSE "Transit",
               ordinal |-> IF p \in FlightPairs
                           THEN Cardinality({q \in FlightPairs : q[2] <= p[2]})
                           ELSE 0]]

AsArea(iv) ==
    [x1 |-> timeToLabel(iv.start, tz), x2 |-> timeToLabel(iv.end, tz),
     label |-> iv.label, ordinal |-> iv.ordinal]

\* Every event name carries at most one of the four keywords.
OneKeywordPerEvent == \A i \in 1..Len(vEvents) : Cardinality(Keywords(vEvents[i].event)) <= 1

\* C12: before the visibility filter, scanning the events in timestamp order,
\* a takeoff seen while no flight is open opens a flight and the next landing
\* closes it and emits a flight interval numbered 1, 2, ...; transit start /
\* transit end do the same for transit intervals; nothing else emits.  The
\* two-leg itinerary gives flight 1 [T1,T2], transit [T2,T3], flight 2
\* [T3,T4]; a lone landing or a lone takeoff gives no interval.
C12_PhaseIntervals ==
    (ppc = "done" /\ OneKeywordPerEvent) =>
        /\ areasRaw = [k \in 1..Len(OwnIntervals) |-> AsArea(OwnIntervals[k])]
        /\ vEvents = TwoLegItinerary =>
              areasRaw = <<AsArea([start |-> T1, end |-> T2, label |-> "In Flight", ordinal |-> 1]),
                           AsArea([start |-> T2, end |-> T3, label |-> "Transit", ordinal |-> 0]),
                           AsArea([start |-> T3, end |-> T4, label |-> "In Flight", ordinal |-> 2])>>
        /\ (Len(vEvents) = 1 \/ \A i \in 1..Len(vEvents) : ~includes(vEvents[i].event, "takeoff")) =>
              \A k \in 1..Len(areasRaw) : areasRaw[k].label # "In Flight"
        /\ (\A i \in 1..Len(vEvents) : ~includes(vEvents[i].event, "landing")) =>
              \A k \in 1..Len(areasRaw) : areasRaw[k].label # "In Flight"

C12_Witness ==
    /\ ppc = "done"
    /\ vEvents = TwoLegItinerary
    /\ Len(areasRaw) = 3
    /\ areasRaw[3].ordinal = 2

InWindow(iv) == iv.start >= timeRange.start /\ iv.end <= timeRange.end

RECURSIVE OwnShown(_)
OwnShown(k) ==
    IF k = 0 THEN <<>>
    ELSE IF InWindow(OwnIntervals[k])
         THEN Append(OwnShown(k - 1), AsArea(OwnIntervals[k]))
         ELSE OwnShown(k - 1)

\* C13: the intervals passed to the chart are exactly the derived intervals
\* whose own opening and closing events both have timestamps inside
\* [timeRange.start, timeRange.end], also when two events share a label.
C13_ShownAreasAreOwnEventsInWindow ==
    (ppc = "done" /\ OneKeywordPerEvent) => shownAreas = OwnShown(Len(OwnIntervals))

Mounted == ppc \in {"effect", "ready"}

InsideTimeRange(d) == timeRange.start <= d.timestamp /\ d.timestamp <= timeRange.end

\* C14: in every state of the visualization, from the unseeded window onward,
\* the samples that contribute to the chart are exactly the samples with
\* timeRange.start <= timestamp <= timeRange.end.
C14_ChartedSamplesAreThoseInWindow ==
    Mounted =>
        filteredHealthData =
            Filter(vHealth, [d \in {vHealth[i] : i \in 1..Len(vHealth)} |-> InsideTimeRange(d)])

\* C14 as amended: once both bounds of timeRange are non-zero the samples that
\* contribute to the chart are exactly those with timeRange.start <=
\* timestamp <= timeRange.end; while a bound is 0 every sample contributes.
C14_WindowAppliesOnceBothBoundsSet ==
    Mounted =>
        /\ (timeRange.start # 0 /\ timeRange.end # 0) =>
              filteredHealthData =
                  Filter(vHealth, [d \in {vHealth[i] : i \in 1..Len(vHealth)} |-> InsideTimeRange(d)])
        /\ (timeRange.start = 0 \/ timeRange.end = 0) => filteredHealthData = vHealth

C14_Witness ==
    /\ ppc = "ready"
    /\ timeRange.start # 0
    /\ timeRange.end # 0
    /\ \E i \in 1..Len(filteredHealthData) : filteredHealthData[i].timestamp = timeRange.start
    /\ \E i \in 1..Len(vHealth) : vHealth[i].timestamp < timeRange.start
    /\ \E i \in 1..Len(vHealth) : vHealth[i].timestamp > timeRange.end

\* The local calendar minute of a sample, counted from the epoch
LocalMinute(d) == (d.timestamp + tz) \div (60 * 1000)

LocalMinutes == {LocalMinute(filteredHealthData[i]) : i \in 1..Len(filteredHealthData)}

NthMinute(k) == CHOOSE m \in LocalMinutes : Cardinality({n \in LocalMinutes : n <= m}) = k

LastOfMinute(m) ==
    CHOOSE i \in 1..Len(filteredHealthData) :
        /\ LocalMinute(filteredHealthData[i]) = m
        /\ \A j \in (i + 1)..Len(filteredHealthData) : LocalMinute(filteredHealthData[j]) # m

\* C15: the chart has one bucket per distinct local calendar minute of the
\* filtered samples, ascending by minute, each with the value of the last
\* sample of its minute in input order; a render with the same samples and
\* timeRange gives the same buckets.
C15_OneBucketPerMinuteLastWins ==
    Mounted =>
        /\ chartData = [k \in 1..Cardinality(LocalMinutes) |->
                           [time |-> NthMinute(k) % (24 * 60),
                            stress |-> filteredHealthData[LastOfMinute(NthMinute(k))].value]]
        /\ vlast.op = "rerender" => chartData = vlast.prevChart

C15_Witness ==
    /\ vlast.op = "rerender"
    /\ Len(filteredHealthData) = 6
    /\ Len(chartData) = 5
    /\ chartData[3].stress = 70
    /\ chartData[3].time = chartData[5].time

EventTimes == {vEvents[i].timestamp : i \in 1..Len(vEvents)}

\* C16: when a non-empty flightEvents list arrives, timeRange becomes
\* [min timestamp - 3h, max timestamp + 3h], whatever the order of the events.
C16_TimeRangeSeededFromMinMax ==
    (vlast.op = "effect" /\ vEvents # <<>>) =>
        /\ \E t \in EventTimes :
              /\ \A u \in EventTimes : t <= u
              /\ timeRange.start = t - 3 * MsPerHour
        /\ \E t \in EventTimes :
              /\ \A u \in EventTimes : t >= u
              /\ timeRange.end = t + 3 * MsPerHour

C16_Witness ==
    /\ vlast.op = "effect"
    /\ Len(vEvents) = 2
    /\ vEvents[1].timestamp > vEvents[2].timestamp
    /\ vlast.prev # InitialTimeRange
    /\ timeRange = [start |-> T1 - 3 * MsPerHour, end |-> T2 + 3 * MsPerHour]

\* C17: an edit of one bound sets that bound to the entered time and leaves
\* the other; an edit with an empty value changes neither; nothing is clamped,
\* and when start > end the chart series is empty.
C17_EditsAreIndependentAndInvertedWindowIsEmpty ==
    /\ (vlast.op = "edit" /\ vlast.value # <<>>) =>
          /\ timeRange[vlast.name] = vlast.value[1] - tz
          /\ \A other \in {"start", "end"} \ {vlast.name} : timeRange[other] = vlast.prev[other]
    /\ (vlast.op = "edit" /\ vlast.value = <<>>) => timeRange = vlast.prev
    /\ (Mounted /\ timeRange.start > timeRange.end) => chartData = <<>>

Parsed == zpc = "done"

\* The member files the loop of line 20 visits
Processed == slice(filesToProcess(zArchive), MAX_FILES_TO_PROCESS)

Count(s, x) == Cardinality({i \in 1..Len(s) : s[i] = x})

SameSamples(s, u) ==
    \A x \in {s[i] : i \in 1..Len(s)} \cup {u[i] : i \in 1..Len(u)} : Count(s, x) = Count(u, x)

RECURSIVE Flatten(_)
Flatten(ss) == IF ss = <<>> THEN <<>> ELSE ss[1] \o Flatten(Tail(ss))

IsNumericPoint(p) == p.t = "object" /\ p.end_time.t = "number" /\ p.score.t = "number"

AsSample(p) == [timestamp |-> p.end_time, value |-> p.score, type |-> "stress"]

\* The records of a container that carry a numeric end_time and score
NumericSamples(container) ==
    LET keep == SelectSeq(container.items, IsNumericPoint)
    IN [i \in 1..Len(keep) |-> AsSample(keep[i])]

\* The container the file's records are read from, <<>> when there is none
ContainerRead(content) ==
    IF content.kind \in {"invalid", "null"} THEN Array(<<>>)
    ELSE IF dataPoints(content).t = "array" THEN dataPoints(content) ELSE Array(<<>>)

\* C18: every returned sample has a present, numeric timestamp and value; a
\* record whose score or end_time is missing, null or not a number is dropped
\* without affecting the other records of its file.
C18_SamplesPresentAndNumeric ==
    Parsed =>
        /\ \A i \in 1..Len(zResult.healthData) :
              /\ zResult.healthData[i].timestamp.t = "number"
              /\ zResult.healthData[i].value.t = "number"
        /\ SameSamples(zResult.healthData,
                       Flatten([k \in 1..Len(Processed) |->
                                   NumericSamples(ContainerRead(Processed[k].content))]))

\* The first of top-level array, 'data', 'binning_data' that is an array
FirstArrayContainer(content) ==
    IF content.kind = "array" THEN content.top
    ELSE IF content.data.t = "array" THEN content.data
    ELSE IF content.binning_data.t = "array" THEN content.binning_data
    ELSE Array(<<>>)

\* Every processed file is valid JSON holding an array or an object, and
\* every record of its containers has a numeric end_time and score.
CleanArchive ==
    \A k \in 1..Len(Processed) :
        LET c == Processed[k].content
        IN /\ c.kind \in {"array", "object"}
           /\ \A f \in {c.top, c.data, c.binning_data} :
                 \A i \in 1..Len(f.items) : IsNumericPoint(f.items[i])

\* C19: each file's records come from the first of top-level array, 'data',
\* 'binning_data' that is an array; a file where none is an array contributes
\* nothing and raises no error.
C19_FirstArrayContainerIsRead ==
    (Parsed /\ CleanArchive) =>
        /\ zResult.status = "resolved"
        /\ SameSamples(zResult.healthData,
                       Flatten([k \in 1..Len(Processed) |->
                                   NumericSamples(FirstArrayContainer(Processed[k].content))]))

\* C20: a member file that is not valid JSON never aborts the extraction: the
\* promise resolves, the failing file contributes nothing, and the result
\* holds every sample that each other processed file yields on its own.
C20_ParseFailureSkipsOnlyThatFile ==
    Parsed =>
        /\ zResult.status = "resolved"
        /\ SameSamples(zResult.healthData,
                       Flatten([k \in 1..Len(Processed) |->
                                   IF Processed[k].content.kind = "invalid" THEN <<>>
                                   ELSE parseSamsungHealthZip(<<Processed[k]>>).healthData]))

C20_Witness ==
    /\ Parsed
    /\ Len(zArchive) = 3
    /\ \A k \in 1..3 : Qualifies(zArchive[k].path)
    /\ zArchive[1].content = TopArray(<<PointA>>)
    /\ zArchive[2].content = InvalidJson
    /\ zArchive[3].content = TopObject(Absent, Array(<<PointB>>))
    /\ zResult = [status |-> "resolved", healthData |-> <<AsSample(PointB), AsSample(PointA)>>]

\* The intervals of one kind, in the order of their closing events
IntervalsOf(pairs, label) ==
    LET nth(k) == CHOOSE p \in pairs : Cardinality({q \in pairs : q[2] <= p[2]}) = k
    IN [k \in 1..Cardinality(pairs) |->
           AsArea([start |-> InOrder[nth(k)[1]].timestamp,
                   end |-> InOrder[nth(k)[2]].timestamp,
                   label |-> label,
                   ordinal |-> IF label = "In Flight" THEN k ELSE 0])]

IsTransitArea(area) == area.label = "Transit"
IsFlightArea(area) == area.label = "In Flight"

\* C21: the two accumulators are independent: the transit intervals depend
\* only on the events containing 'transit start' / 'transit end' and the
\* flight intervals only on those containing 'takeoff' / 'landing'; an event
\* whose name contains keywords of both kinds is applied to both.
C21_AccumulatorsAreIndependent ==
    ppc = "done" =>
        /\ SelectSeq(areasRaw, IsTransitArea) = IntervalsOf(TransitPairs, "Transit")
        /\ SelectSeq(areasRaw, IsFlightArea) = IntervalsOf(FlightPairs, "In Flight")

\* C22: resetApp, from any reachable state, puts the session back in its
\* initial state (appState AWAITING_WATCH_DATA, healthData empty, flightData
\* null, analysis empty, error null, isLoading and isAnalysisLoading false)
\* and keeps nothing of the previous session: no upload and no insight call
\* of that session is left pending.
C22_ResetRestoresInitialSession ==
    last.op = "resetApp" =>
        /\ appState = AWAITING_WATCH_DATA
        /\ healthData = <<>>
        /\ flightData = NoFlight
        /\ analysis = ""
        /\ error = NoError
        /\ ~isLoading
        /\ ~isAnalysisLoading
        /\ uploads = {}
        /\ calls = {}

====
